---------------------------- MODULE Spec2Model ----------------------------
(***************************************************************************)
(* epl-edge: fixture ingestion, odds-event matching, market extraction and *)
(* the snapshot store (src/src/collect.py, db.py, export.py, utils.py).    *)
(*                                                                         *)
(* Representation.                                                         *)
(*   - A Python / JSON / SQL value is a tagged record: None (SQL NULL),    *)
(*     Str(s) with s a sequence of one-character strings, Int(v), and      *)
(*     Float(v) with v the value in hundredths (2.5 is Float(250)).        *)
(*   - A timestamp string "YYYY-MM-DDTHH:MM:SS<suffix>" is the record of   *)
(*     its fields [day, sod, sfx] (sod = second of the day).  Two such     *)
(*     strings are byte-equal iff their fields are equal, and their byte   *)
(*     order is the order on (day, sod, sfx).  A text that is no timestamp *)
(*     is an ordinary Str.  Missing is a key absent from a JSON object.    *)
(***************************************************************************)
EXTENDS Integers, Sequences, FiniteSets, TLC

(***************************************************************************)
(* Bounds of the model.                                                    *)
(***************************************************************************)
MaxDay == 2
MaxMatches == 2
MaxEvents == 2
MaxRows == 3
MaxOutcomes == 3

(***************************************************************************)
(* Values.                                                                 *)
(***************************************************************************)
None == [t |-> "none"]
Missing == [t |-> "missing"]
TS(day, sod, sfx) == [t |-> "ts", day |-> day, sod |-> sod, sfx |-> sfx]
Str(s) == [t |-> "str", s |-> s]
Int_(v) == [t |-> "int", v |-> v]
Float(v) == [t |-> "float", v |-> v]

\* The floats that are no finite number: inf, -inf and nan. The feeds' JSON
\* parser yields them for Infinity, -Infinity and NaN, float() for their texts.
Inf == [t |-> "inf"]
NegInf == [t |-> "-inf"]
NaN == [t |-> "nan"]

IsNone(x) == x.t = "none"

\* Python truthiness of a value: None, "", 0 and 0.0 are falsy.
Truthy(x) ==
  CASE x.t \in {"none", "missing"} -> FALSE
    [] x.t = "str" -> x.s # <<>>
    [] x.t = "ts" -> TRUE
    [] OTHER -> x.v # 0

\* `a or b`
Or_(a, b) == IF Truthy(a) THEN a ELSE b

UpperCase == <<"A","B","C","D","E","F","G","H","I","J","K","L","M",
               "N","O","P","Q","R","S","T","U","V","W","X","Y","Z">>
LowerCase == <<"a","b","c","d","e","f","g","h","i","j","k","l","m",
               "n","o","p","q","r","s","t","u","v","w","x","y","z">>
Whitespace == {" ", "\t", "\n"}
Digits == <<"0","1","2","3","4","5","6","7","8","9">>

LowerChar(c) ==
  IF \E i \in 1..26 : UpperCase[i] = c
    THEN LowerCase[CHOOSE i \in 1..26 : UpperCase[i] = c]
    ELSE c

\* str.lower() and SQL lower() on the ASCII letters
lower(s) == [i \in 1..Len(s) |-> LowerChar(s[i])]

RECURSIVE lstrip(_)
lstrip(s) == IF s # <<>> /\ Head(s) \in Whitespace THEN lstrip(Tail(s)) ELSE s

RECURSIVE rstrip(_)
rstrip(s) ==
  IF s # <<>> /\ s[Len(s)] \in Whitespace
    THEN rstrip(SubSeq(s, 1, Len(s) - 1))
    ELSE s

\* str.strip()
strip(s) == rstrip(lstrip(s))

\* dict.get(key) and dict.get(key, default)
Get(x) == IF x.t = "missing" THEN None ELSE x
GetDefault(x, d) == IF x.t = "missing" THEN d ELSE x

\* _norm(s) = (s or "").strip().lower(), on None or a string
_norm(x) == IF Truthy(x) THEN lower(strip(x.s)) ELSE <<>>

IsDigit(c) == \E i \in 1..10 : Digits[i] = c
DigitVal(c) == (CHOOSE i \in 1..10 : Digits[i] = c) - 1

RECURSIVE DigitsOf(_)
DigitsOf(n) ==
  IF n < 10 THEN <<Digits[n + 1]>>
  ELSE Append(DigitsOf(n \div 10), Digits[(n % 10) + 1])

\* str(x) of an int or a string (fixture ids)
str(x) ==
  CASE x.t = "str" -> x.s
    [] x.t = "int" -> IF x.v < 0 THEN <<"-">> \o DigitsOf(-x.v) ELSE DigitsOf(x.v)

RECURSIVE NatOf(_)
NatOf(ds) == IF ds = <<>> THEN 0 ELSE 10 * NatOf(SubSeq(ds, 1, Len(ds) - 1)) + DigitVal(ds[Len(ds)])

AllDigits(ds) == \A i \in 1..Len(ds) : IsDigit(ds[i])

\* The decimal literals float() accepts, as far as the model's feeds use
\* them: [sign] digits [ "." digit [digit] ], surrounding whitespace ignored.
DotAt(b) == IF \E i \in 1..Len(b) : b[i] = "." THEN CHOOSE i \in 1..Len(b) : b[i] = "." ELSE 0
Unsigned(s) == IF s # <<>> /\ Head(s) \in {"-", "+"} THEN Tail(s) ELSE s
IntPart(b) == IF DotAt(b) = 0 THEN b ELSE SubSeq(b, 1, DotAt(b) - 1)
FracPart(b) == IF DotAt(b) = 0 THEN <<>> ELSE SubSeq(b, DotAt(b) + 1, Len(b))

IsDecimal(s) ==
  LET b == Unsigned(strip(s)) IN
    /\ IntPart(b) # <<>>
    /\ AllDigits(IntPart(b))
    /\ AllDigits(FracPart(b))
    /\ Len(FracPart(b)) <= 2
    /\ (DotAt(b) # 0 => FracPart(b) # <<>>)

DecimalValue(s) ==
  LET b == Unsigned(strip(s))
      f == FracPart(b)
      cents == IF Len(f) = 0 THEN 0 ELSE IF Len(f) = 1 THEN 10 * NatOf(f) ELSE NatOf(f)
      mag == 100 * NatOf(IntPart(b)) + cents
  IN IF strip(s) # <<>> /\ Head(strip(s)) = "-" THEN -mag ELSE mag

\* The texts float() reads as inf or nan, in any case, signed or not
InfTexts == { <<"i","n","f">>, <<"i","n","f","i","n","i","t","y">> }
NanTexts == { <<"n","a","n">> }
IsNonFiniteText(s) == Unsigned(lower(strip(s))) \in InfTexts \cup NanTexts

NonFiniteValue(s) ==
  IF Unsigned(lower(strip(s))) \in NanTexts THEN NaN
  ELSE IF Head(strip(s)) = "-" THEN NegInf ELSE Inf

\* float(x) raises TypeError on None and ValueError on a text that is no number
FloatFails(x) ==
  CASE x.t = "none" -> TRUE
    [] x.t = "str" -> ~IsDecimal(x.s) /\ ~IsNonFiniteText(x.s)
    [] OTHER -> FALSE

\* float(x) where it succeeds
float(x) ==
  CASE x.t = "str" -> (IF IsNonFiniteText(x.s) THEN NonFiniteValue(x.s)
                                               ELSE Float(DecimalValue(x.s)))
    [] x.t = "int" -> Float(100 * x.v)
    [] OTHER -> x

(***************************************************************************)
(* Strings the feeds and the code use.                                     *)
(***************************************************************************)
ArsenalFC == <<"A","r","s","e","n","a","l"," ","F","C">>
ChelseaFC == <<"C","h","e","l","s","e","a"," ","F","C">>
Arsenal == <<"A","r","s","e","n","a","l">>
Chelsea == <<"C","h","e","l","s","e","a">>
Fulham == <<"F","u","l","h","a","m">>
Everton == <<"E","v","e","r","t","o","n">>
UNKNOWN_HOME == <<"U","N","K","N","O","W","N","_","H","O","M","E">>
UNKNOWN_AWAY == <<"U","N","K","N","O","W","N","_","A","W","A","Y">>
UNKNOWN == <<"U","N","K","N","O","W","N">>
SCHEDULED == <<"S","C","H","E","D","U","L","E","D">>
FINISHED == <<"F","I","N","I","S","H","E","D">>

\* Kick-off times of the feeds, as seconds of the day: 15:00, 15:05, 15:30.
K1500 == 15 * 3600
K1505 == 15 * 3600 + 5 * 60
K1530 == 15 * 3600 + 30 * 60

(***************************************************************************)
(* State.                                                                  *)
(***************************************************************************)
VARIABLES
  now,            \* the UTC clock: [day, sec, usec]
  fixtures,       \* table fixtures, in rowid order
  odds_snapshots, \* table odds_snapshots, in rowid order
  pc,             \* position of collect.main: "start", "odds", "base", "btts",
                  \* "done", "crashed"; of export.main: "exported"
  exc,            \* the exception that ended the last run, "" if none
  captured_at,    \* main's captured_at
  base_events,    \* main's base_events
  ev_out,         \* rows the last store_* call appended per event of its loop
  last_rec,       \* history: per fixture_id, the last record upsert_fixtures committed
  exported,       \* payload["items"] of the last export
  mk_in,          \* extractor harness: the market handed to the extractor
  mk_rows         \* extractor harness: the rows it emitted

vars == <<now, fixtures, odds_snapshots, pc, exc, captured_at, base_events,
          ev_out, last_rec, exported, mk_in, mk_rows>>


(***************************************************************************)
(* Clock and timestamps (utils.py).                                        *)
(***************************************************************************)
\* datetime.now(timezone.utc).replace(microsecond=0).isoformat().replace("+00:00", "Z")
utcnow_iso(clock) == TS(clock.day, clock.sec, "Z")

\* a <= b on [day, sec, usec]
ClockLeq(a, b) ==
  \/ a.day < b.day
  \/ a.day = b.day /\ a.sec < b.sec
  \/ a.day = b.day /\ a.sec = b.sec /\ a.usec <= b.usec

\* The instants the model's clock passes through: midnight of each day and,
\* on the first day, half a second and one second past it.
Clocks ==
  { [day |-> d, sec |-> 0, usec |-> 0] : d \in 1..MaxDay } \cup
  { [day |-> 1, sec |-> 0, usec |-> 500000], [day |-> 1, sec |-> 1, usec |-> 0] }

\* Time passes.
Tick ==
  /\ \E c \in Clocks : c # now /\ ClockLeq(now, c) /\ now' = c
  /\ UNCHANGED <<fixtures, odds_snapshots, pc, exc, captured_at, base_events,
                 ev_out, last_rec, exported, mk_in, mk_rows>>

(***************************************************************************)
(* The fixture feed (football-data.org) and upsert_fixtures.               *)
(***************************************************************************)
Match(id, utcDate, status, matchday, homeTeam, awayTeam, home, away) ==
  [id |-> id, utcDate |-> utcDate, status |-> status, matchday |-> matchday,
   homeTeam |-> homeTeam, awayTeam |-> awayTeam, home |-> home, away |-> away]

F100 ==
  Match(Int_(100), TS(2, K1500, "Z"), Str(SCHEDULED), Int_(22),
        Str(ArsenalFC), Str(ChelseaFC), None, None)
\* the same match under a text id, played
F100_finished ==
  Match(Str(<<"1","0","0">>), TS(2, K1500, "Z"), Str(FINISHED), Int_(22),
        Str(ArsenalFC), Str(ChelseaFC), Int_(2), Int_(1))
\* the same match, moved by half an hour
F100_moved ==
  Match(Int_(100), TS(2, K1530, "Z"), Str(SCHEDULED), Int_(22),
        Str(ArsenalFC), Str(ChelseaFC), None, None)
F101 ==
  Match(Int_(101), TS(1, K1500, "Z"), Missing, Missing,
        Str(Fulham), Str(Everton), Missing, Missing)
\* a record without team names
F102 ==
  Match(Int_(102), TS(2, K1530, "Z"), Str(SCHEDULED), Int_(22),
        None, Str(<<>>), None, None)
\* a record without utcDate
F103 ==
  Match(Int_(103), Missing, Str(SCHEDULED), Int_(22),
        Str(Fulham), Str(Arsenal), None, None)

SeqsUpTo(S, n) == UNION { [1..k -> S] : k \in 0..n }

\* The tuple upsert_fixtures builds for one match.
FixtureRow(m, now_iso) ==
  [fixture_id |-> str(m.id),
   commence_time_utc |-> Get(m.utcDate),
   matchweek |-> Get(m.matchday),
   status |-> GetDefault(m.status, Str(UNKNOWN)),
   home_team |-> Or_(Get(m.homeTeam), Str(UNKNOWN_HOME)),
   away_team |-> Or_(Get(m.awayTeam), Str(UNKNOWN_AWAY)),
   home_goals |-> Get(m.home),
   away_goals |-> Get(m.away),
   last_updated_utc |-> now_iso]

\* NOT NULL columns of table fixtures
FixtureNotNullOk(r) ==
  /\ ~IsNone(r.commence_time_utc)
  /\ ~IsNone(r.status)
  /\ ~IsNone(r.home_team)
  /\ ~IsNone(r.away_team)

\* INSERT without a conflict clause on the primary key (a faulty variant of UpsertOne)
UpsertOne_insert_only(tbl, r) == Append(tbl, r)

\* INSERT ... ON CONFLICT(fixture_id) DO UPDATE SET <every other column>
UpsertOne(tbl, r) ==
  IF \E i \in 1..Len(tbl) : tbl[i].fixture_id = r.fixture_id
    THEN [i \in 1..Len(tbl) |-> IF tbl[i].fixture_id = r.fixture_id THEN r ELSE tbl[i]]
    ELSE Append(tbl, r)

\* executemany: the statement once per row, in order
RECURSIVE UpsertAll(_, _)
UpsertAll(tbl, rows) ==
  IF rows = <<>> THEN tbl ELSE UpsertAll(UpsertOne(tbl, Head(rows)), Tail(rows))

FixtureRows(matches, now_iso) == [i \in 1..Len(matches) |-> FixtureRow(matches[i], now_iso)]

\* The last row of `rows` with the given id (history of what was ingested)
LastWithId(rows, id) ==
  rows[CHOOSE i \in 1..Len(rows) :
         /\ rows[i].fixture_id = id
         /\ \A j \in (i + 1)..Len(rows) : rows[j].fixture_id # id]

IdsOf(rows) == { rows[i].fixture_id : i \in 1..Len(rows) }

\* upsert_fixtures(con, matches_json); a NOT NULL violation raises
\* IntegrityError before the commit, which ends the run with nothing written.
UpsertFixturesFrom(payloads) ==
  /\ pc = "start"
  /\ \E matches \in payloads :
       LET rows == FixtureRows(matches, utcnow_iso(now)) IN
         IF \E i \in 1..Len(rows) : ~FixtureNotNullOk(rows[i])
           THEN /\ exc' = "IntegrityError"
                /\ pc' = "crashed"
                /\ UNCHANGED <<fixtures, last_rec>>
           ELSE /\ fixtures' = UpsertAll(fixtures, rows)
                /\ last_rec' = [id \in DOMAIN last_rec \cup IdsOf(rows) |->
                                  IF id \in IdsOf(rows) THEN LastWithId(rows, id)
                                  ELSE last_rec[id]]
                /\ exc' = ""
                /\ pc' = "odds"
  /\ UNCHANGED <<now, odds_snapshots, captured_at, base_events, ev_out, exported,
                 mk_in, mk_rows>>

(***************************************************************************)
(* _fixture_id_for_event (collect.py).                                     *)
(***************************************************************************)
\* The WHERE clause without its kick-off condition
FixtureMatches_names_only(f, commence, home, away) ==
  /\ lower(f.home_team.s) = _norm(home)
  /\ lower(f.away_team.s) = _norm(away)

\* WHERE commence_time_utc = ? AND lower(home_team) = ? AND lower(away_team) = ?
FixtureMatches(f, commence, home, away) ==
  /\ f.commence_time_utc = commence
  /\ lower(f.home_team.s) = _norm(home)
  /\ lower(f.away_team.s) = _norm(away)

\* SELECT fixture_id ... LIMIT 1 (the table is scanned in rowid order), then
\* str(got["fixture_id"]); None when no row matches.
_fixture_id_for_event(tbl, commence, home, away) ==
  IF \E i \in 1..Len(tbl) : FixtureMatches(tbl[i], commence, home, away)
    THEN LET i == CHOOSE i \in 1..Len(tbl) :
                    /\ FixtureMatches(tbl[i], commence, home, away)
                    /\ \A j \in 1..(i - 1) : ~FixtureMatches(tbl[j], commence, home, away)
         IN Str(tbl[i].fixture_id)
    ELSE None

(***************************************************************************)
(* The market extractor of store_base_market_snapshots.                    *)
(***************************************************************************)
TOTALS == <<"t","o","t","a","l","s">>
SPREADS == <<"s","p","r","e","a","d","s">>
BTTS == <<"b","t","t","s">>
H2H == <<"h","2","h">>
OVER == <<"o","v","e","r">>
UNDER == <<"u","n","d","e","r">>
UNKNOWN_BOOK == <<"u","n","k","n","o","w","n","_","b","o","o","k">>

Outcome(name, price, point) == [name |-> name, price |-> price, point |-> point]
Market(key, outcomes) == [key |-> key, outcomes |-> outcomes]
Bookmaker(title, key, markets) == [title |-> title, key |-> key, markets |-> markets]

\* by_line.setdefault(ln, {})[side] = pr, by_line kept in insertion order;
\* an entry is [ln, a, b], a side not set yet being Missing.
SetSide(by_line, ln, side, pr) ==
  IF \E i \in 1..Len(by_line) : by_line[i].ln = ln
    THEN [i \in 1..Len(by_line) |->
            IF by_line[i].ln = ln
              THEN (IF side = "a" THEN [by_line[i] EXCEPT !.a = pr]
                                  ELSE [by_line[i] EXCEPT !.b = pr])
              ELSE by_line[i]]
    ELSE Append(by_line, IF side = "a" THEN [ln |-> ln, a |-> pr, b |-> Missing]
                                       ELSE [ln |-> ln, a |-> Missing, b |-> pr])

\* The totals loop over mk["outcomes"] (collect.py 308-321)
RECURSIVE TotalsByLine(_, _)
TotalsByLine(outs, by_line) ==
  IF outs = <<>> THEN by_line
  ELSE LET out == Head(outs)
           point == Get(out.point)
           name == _norm(Get(out.name))
           price == Get(out.price)
       IN IF IsNone(point) \/ IsNone(price) THEN TotalsByLine(Tail(outs), by_line)
          ELSE IF FloatFails(point) \/ FloatFails(price) THEN TotalsByLine(Tail(outs), by_line)
          ELSE IF name \notin {OVER, UNDER} THEN TotalsByLine(Tail(outs), by_line)
          ELSE TotalsByLine(Tail(outs),
                            SetSide(by_line, float(point),
                                    IF name = OVER THEN "a" ELSE "b", float(price)))

\* The spreads loop over mk["outcomes"] (collect.py 330-346)
RECURSIVE SpreadsByLine(_, _, _, _)
SpreadsByLine(outs, home, away, by_line) ==
  IF outs = <<>> THEN by_line
  ELSE LET out == Head(outs)
           point == Get(out.point)
           name == Get(out.name)
           price == Get(out.price)
       IN IF IsNone(point) \/ IsNone(name) \/ IsNone(price)
            THEN SpreadsByLine(Tail(outs), home, away, by_line)
          ELSE IF FloatFails(point) \/ FloatFails(price)
            THEN SpreadsByLine(Tail(outs), home, away, by_line)
          ELSE IF _norm(Str(str(name))) = _norm(home)
            THEN SpreadsByLine(Tail(outs), home, away,
                               SetSide(by_line, float(point), "a", float(price)))
          ELSE IF _norm(Str(str(name))) = _norm(away)
            THEN SpreadsByLine(Tail(outs), home, away,
                               SetSide(by_line, float(point), "b", float(price)))
          ELSE SpreadsByLine(Tail(outs), home, away, by_line)

\* The lines with either side set (a faulty variant of TwoSided)
TwoSided_either(by_line) == by_line

\* for ln, ou in by_line.items(): if both sides are set: append (ln, a, b)
RECURSIVE TwoSided(_)
TwoSided(by_line) ==
  IF by_line = <<>> THEN <<>>
  ELSE IF Head(by_line).a.t # "missing" /\ Head(by_line).b.t # "missing"
         THEN <<Head(by_line)>> \o TwoSided(Tail(by_line))
         ELSE TwoSided(Tail(by_line))

\* The (ln, side A, side B) triples of one market of the base feed
MarketLines(mk, home, away) ==
  IF Get(mk.key) = Str(TOTALS) THEN TwoSided(TotalsByLine(mk.outcomes, <<>>))
  ELSE IF Get(mk.key) = Str(SPREADS) THEN TwoSided(SpreadsByLine(mk.outcomes, home, away, <<>>))
  ELSE <<>>

(***************************************************************************)
(* The odds feed (the-odds-api.com).                                       *)
(***************************************************************************)
Event(id, commence_time, home_team, away_team, bookmakers) ==
  [id |-> id, commence_time |-> commence_time, home_team |-> home_team,
   away_team |-> away_team, bookmakers |-> bookmakers]

Bet1 == <<"B","e","t","1">>
OverName == <<"O","v","e","r">>
UnderName == <<"U","n","d","e","r">>
ABC == <<"a","b","c">>
TBD == <<"T","B","D">>

\* The quote of the end-to-end scenario: Over 2.05 / Under 1.80 at 2.5
TotalsQuote ==
  Market(Str(TOTALS), << Outcome(Str(OverName), Float(205), Float(250)),
                         Outcome(Str(UnderName), Float(180), Float(250)) >>)

\* Home -0.5 at 1.90, away +0.5 at 1.95
SpreadsQuote(home, away) ==
  Market(Str(SPREADS), << Outcome(Str(home), Float(190), Float(-50)),
                          Outcome(Str(away), Float(195), Float(50)) >>)

\* the fixture 100 under the odds provider's names, five minutes off
E100_provider ==
  Event(Str(ABC), TS(2, K1505, "Z"), Str(Arsenal), Str(Chelsea),
        << Bookmaker(Str(Bet1), Missing, <<TotalsQuote>>) >>)
\* the fixture 100 under its own names (in another case) and kick-off
E100 ==
  Event(Str(ABC), TS(2, K1500, "Z"), Str(<<" ">> \o lower(ArsenalFC)), Str(ChelseaFC),
        << Bookmaker(Str(Bet1), Missing,
                     <<TotalsQuote, SpreadsQuote(ArsenalFC, ChelseaFC)>>) >>)
\* the fixture 101, by a bookmaker that has only a key, with no base quote
E101 ==
  Event(Str(<<"d","e","f">>), TS(1, K1500, "Z"), Str(Fulham), Str(Everton),
        << Bookmaker(Missing, Str(Bet1), <<Market(Str(H2H), <<>>)>>) >>)
\* the fixture 100, before any bookmaker quotes it
E100_unquoted ==
  Event(Str(ABC), TS(2, K1500, "Z"), Str(ArsenalFC), Str(ChelseaFC), <<>>)
\* no timestamp at all
E_no_time ==
  Event(Str(ABC), Missing, Str(ArsenalFC), Str(ChelseaFC),
        << Bookmaker(Str(Bet1), Missing, <<TotalsQuote>>) >>)
\* a text that is no timestamp
E_bad_time ==
  Event(Str(ABC), Str(TBD), Str(ArsenalFC), Str(ChelseaFC),
        << Bookmaker(Str(Bet1), Missing, <<TotalsQuote>>) >>)
\* an empty home name and no away name
E_no_name ==
  Event(Str(ABC), TS(2, K1500, "Z"), Str(<<>>), Missing,
        << Bookmaker(Str(Bet1), Missing, <<TotalsQuote>>) >>)
\* a timestamp without offset
E_naive ==
  Event(Str(ABC), TS(2, K1500, ""), Str(ArsenalFC), Str(ChelseaFC),
        << Bookmaker(Str(Bet1), Missing, <<TotalsQuote>>) >>)

(***************************************************************************)
(* _store_rows and store_base_market_snapshots.                            *)
(***************************************************************************)
SnapRow(cap, fixture_id, bm_title, market, ln, a, b) ==
  [captured_at_utc |-> cap, fixture_id |-> fixture_id, bookmaker |-> bm_title,
   market |-> market, line |-> ln, over_price |-> a, under_price |-> b]

\* An insert that overwrites the stored row of the same fixture, bookmaker,
\* market and line (a faulty variant of InsertSnapshot)
InsertSnapshot_replace(tbl, r) ==
  LET same(x) == /\ x.fixture_id = r.fixture_id
                 /\ x.bookmaker = r.bookmaker
                 /\ x.market = r.market
                 /\ x.line = r.line
      new(id) == [snapshot_id |-> id,
                  captured_at_utc |-> r.captured_at_utc, fixture_id |-> r.fixture_id,
                  bookmaker |-> r.bookmaker, market |-> r.market, line |-> r.line,
                  over_price |-> r.over_price, under_price |-> r.under_price]
  IN IF \E i \in 1..Len(tbl) : same(tbl[i])
       THEN [i \in 1..Len(tbl) |-> IF same(tbl[i]) THEN new(tbl[i].snapshot_id) ELSE tbl[i]]
       ELSE Append(tbl, new(Len(tbl) + 1))

\* INSERT INTO odds_snapshots: snapshot_id is AUTOINCREMENT
InsertSnapshot(tbl, r) ==
  Append(tbl, [snapshot_id |-> Len(tbl) + 1,
               captured_at_utc |-> r.captured_at_utc, fixture_id |-> r.fixture_id,
               bookmaker |-> r.bookmaker, market |-> r.market, line |-> r.line,
               over_price |-> r.over_price, under_price |-> r.under_price])

RECURSIVE _store_rows(_, _)
_store_rows(tbl, rows) ==
  IF rows = <<>> THEN tbl ELSE _store_rows(InsertSnapshot(tbl, Head(rows)), Tail(rows))

RECURSIVE Flatten(_)
Flatten(ss) == IF ss = <<>> THEN <<>> ELSE Head(ss) \o Flatten(Tail(ss))

\* bm.get("title") or bm.get("key") or "unknown_book"
BmTitle(bm) == Or_(Or_(Get(bm.title), Get(bm.key)), Str(UNKNOWN_BOOK))

\* The rows of one market of one bookmaker (collect.py 306-350)
MarketRows(mk, cap, fixture_id, bm_title, home, away) ==
  LET lines == MarketLines(mk, home, away) IN
    [i \in 1..Len(lines) |->
       SnapRow(cap, fixture_id, bm_title, Get(mk.key).s, lines[i].ln, lines[i].a, lines[i].b)]

BookmakerRows(bm, cap, fixture_id, home, away) ==
  Flatten([k \in 1..Len(bm.markets) |->
             MarketRows(bm.markets[k], cap, fixture_id, BmTitle(bm).s, home, away)])

\* One iteration of `for ev in events` (collect.py 289-350)
EventRows(tbl, ev, cap) ==
  LET commence == Get(ev.commence_time)
      home == Get(ev.home_team)
      away == Get(ev.away_team)
  IN IF ~(Truthy(commence) /\ Truthy(home) /\ Truthy(away)) THEN <<>>
     ELSE LET fixture_id == _fixture_id_for_event(tbl, commence, home, away) IN
       IF ~Truthy(fixture_id) THEN <<>>
       ELSE Flatten([k \in 1..Len(ev.bookmakers) |->
                       BookmakerRows(ev.bookmakers[k], cap, fixture_id.s, home, away)])

\* A loop that stops at the first event it cannot use (a faulty variant of BaseLoop)
RECURSIVE BaseLoop_break(_, _, _)
BaseLoop_break(tbl, events, cap) ==
  IF events = <<>> THEN <<>>
  ELSE IF EventRows(tbl, Head(events), cap) = <<>>
         THEN [i \in 1..Len(events) |-> <<>>]
         ELSE <<EventRows(tbl, Head(events), cap)>> \o BaseLoop_break(tbl, Tail(events), cap)

\* `for ev in events or []`: the rows each event appends
RECURSIVE BaseLoop(_, _, _)
BaseLoop(tbl, events, cap) ==
  IF events = <<>> THEN <<>>
  ELSE <<EventRows(tbl, Head(events), cap)>> \o BaseLoop(tbl, Tail(events), cap)

\* main: captured_at = utcnow_iso(); base_events = fetch_odds_base(...)
FetchOddsBaseFrom(payloads) ==
  /\ pc = "odds"
  /\ captured_at' = utcnow_iso(now)
  /\ \E events \in payloads : base_events' = events
  /\ pc' = "base"
  /\ UNCHANGED <<now, fixtures, odds_snapshots, exc, ev_out, last_rec, exported,
                 mk_in, mk_rows>>

\* store_base_market_snapshots(con, base_events, captured_at)
StoreBase ==
  /\ pc = "base"
  /\ LET out == BaseLoop(fixtures, base_events, captured_at) IN
       /\ Len(odds_snapshots) + Len(Flatten(out)) <= MaxRows
       /\ ev_out' = out
       /\ odds_snapshots' = _store_rows(odds_snapshots, Flatten(out))
  /\ pc' = "btts"
  /\ UNCHANGED <<now, fixtures, exc, captured_at, base_events, last_rec, exported,
                 mk_in, mk_rows>>

(***************************************************************************)
(* store_btts_snapshots.                                                   *)
(***************************************************************************)
MaxBttsEventsDefault == 5

YesName == <<"Y","e","s">>
NoName == <<"N","o">>

\* What fetch_event_odds can return for an event: None (HTTP error or a body
\* that is no JSON), a two-sided btts quote, a one-sided one.
BttsQuote ==
  [t |-> "dict", bookmakers |->
     << Bookmaker(Str(Bet1), Missing,
          << Market(Str(BTTS), << Outcome(Str(YesName), Float(180), Missing),
                                  Outcome(Str(NoName), Float(200), Missing) >>) >>) >>]
BttsOneSided ==
  [t |-> "dict", bookmakers |->
     << Bookmaker(Str(Bet1), Missing,
          << Market(Str(TOTALS), TotalsQuote.outcomes),
             Market(Str(BTTS), << Outcome(Str(YesName), Float(180), Missing),
                                  Outcome(Str(NoName), None, Missing) >>) >>) >>]

\* datetime.fromisoformat(ct.replace("Z", "+00:00")) succeeds on a timestamp text
ParsesAsIso(ct) == ct.t = "ts"
\* ... and gives an aware datetime only when the text carries an offset
IsAware(ct) == ct.sfx \in {"Z", "+00:00"}
\* dt >= now
NotBefore(ct, clock) == ClockLeq(clock, [day |-> ct.day, sec |-> ct.sod, usec |-> 0])

\* The filter loop (collect.py 378-388); a naive dt makes `dt >= now` raise
\* TypeError outside the try block.
FilterRaises(events) ==
  \E i \in 1..Len(events) :
    LET ct == Get(events[i].commence_time) IN
      Truthy(ct) /\ ParsesAsIso(ct) /\ ~IsAware(ct)

RECURSIVE Upcoming(_, _)
Upcoming(events, clock) ==
  IF events = <<>> THEN <<>>
  ELSE LET ct == Get(Head(events).commence_time) IN
    IF Truthy(ct) /\ ParsesAsIso(ct) /\ NotBefore(ct, clock)
      THEN <<Head(events)>> \o Upcoming(Tail(events), clock)
      ELSE Upcoming(Tail(events), clock)

\* Byte order of two timestamp texts
SfxRank(sfx) == CASE sfx = "" -> 0 [] sfx = "+00:00" -> 1 [] OTHER -> 2
TsLess(a, b) ==
  \/ a.day < b.day
  \/ a.day = b.day /\ a.sod < b.sod
  \/ a.day = b.day /\ a.sod = b.sod /\ SfxRank(a.sfx) < SfxRank(b.sfx)

\* list.sort(key = commence_time) is stable: insert behind the equal keys
RECURSIVE InsertByCommence(_, _)
InsertByCommence(sorted, ev) ==
  IF sorted = <<>> THEN <<ev>>
  ELSE IF TsLess(ev.commence_time, Head(sorted).commence_time)
         THEN <<ev>> \o sorted
         ELSE <<Head(sorted)>> \o InsertByCommence(Tail(sorted), ev)

RECURSIVE SortByCommence(_)
SortByCommence(events) ==
  IF events = <<>> THEN <<>>
  ELSE InsertByCommence(SortByCommence(SubSeq(events, 1, Len(events) - 1)),
                        events[Len(events)])

\* upcoming[: max(0, int(max_btts_events))]
FirstN(seq, n) == SubSeq(seq, 1, IF n < Len(seq) THEN (IF n < 0 THEN 0 ELSE n) ELSE Len(seq))

\* btts_already_captured_today: substr(captured_at_utc, 1, 10) = today
btts_already_captured_today(tbl, fixture_id, clock) ==
  \E i \in 1..Len(tbl) :
    /\ tbl[i].fixture_id = fixture_id
    /\ tbl[i].market = BTTS
    /\ tbl[i].captured_at_utc.day = clock.day

\* The outcome loop of one btts market (collect.py 429-445): [yes, no]
RECURSIVE BttsPrices(_, _)
BttsPrices(outs, acc) ==
  IF outs = <<>> THEN acc
  ELSE LET nm == _norm(Get(Head(outs).name))
           pr == Get(Head(outs).price)
       IN IF IsNone(pr) \/ FloatFails(pr) THEN BttsPrices(Tail(outs), acc)
          ELSE IF nm \in {<<"y","e","s">>, <<"y">>}
            THEN BttsPrices(Tail(outs), [acc EXCEPT !.yes = float(pr)])
          ELSE IF nm \in {<<"n","o">>, <<"n">>}
            THEN BttsPrices(Tail(outs), [acc EXCEPT !.no = float(pr)])
          ELSE BttsPrices(Tail(outs), acc)

\* A btts row written without a line (a faulty variant of BttsLine)
BttsLine_null == None

\* The line every btts row is stored with (collect.py 448)
BttsLine == Float(0)

BttsMarketRows(mk, cap, fixture_id, bm_title) ==
  IF Get(mk.key) # Str(BTTS) THEN <<>>
  ELSE LET p == BttsPrices(mk.outcomes, [yes |-> None, no |-> None]) IN
    IF ~IsNone(p.yes) /\ ~IsNone(p.no)
      THEN <<SnapRow(cap, fixture_id, bm_title, BTTS, BttsLine, p.yes, p.no)>>
      ELSE <<>>

BttsBookmakerRows(bm, cap, fixture_id) ==
  Flatten([k \in 1..Len(bm.markets) |->
             BttsMarketRows(bm.markets[k], cap, fixture_id, BmTitle(bm).s)])

\* One iteration of `for ev in upcoming` (collect.py 394-448)
BttsEventRows(ftbl, stbl, ev, cap, clock, payload) ==
  LET event_id == Get(ev.id)
      commence == Get(ev.commence_time)
      home == Get(ev.home_team)
      away == Get(ev.away_team)
  IN IF ~(Truthy(event_id) /\ Truthy(commence) /\ Truthy(home) /\ Truthy(away)) THEN <<>>
     ELSE LET fixture_id == _fixture_id_for_event(ftbl, commence, home, away) IN
       IF ~Truthy(fixture_id) THEN <<>>
       ELSE IF btts_already_captured_today(stbl, fixture_id.s, clock) THEN <<>>
       ELSE IF payload.t = "none" THEN <<>>
       ELSE Flatten([k \in 1..Len(payload.bookmakers) |->
                       BttsBookmakerRows(payload.bookmakers[k], cap, fixture_id.s)])

\* store_btts_snapshots(con, base_events, captured_at, s, max_btts_events)
StoreBttsFrom(responses) ==
  /\ pc = "btts"
  /\ IF FilterRaises(base_events)
       THEN /\ exc' = "TypeError"
            /\ pc' = "crashed"
            /\ ev_out' = <<>>
            /\ UNCHANGED <<odds_snapshots, base_events, captured_at>>
       ELSE \E max_btts_events \in {1, MaxBttsEventsDefault} :
              LET upcoming == FirstN(SortByCommence(Upcoming(base_events, now)),
                                     max_btts_events)
              IN \E payloads \in [1..Len(upcoming) -> responses] :
                   LET out == [i \in 1..Len(upcoming) |->
                                 BttsEventRows(fixtures, odds_snapshots, upcoming[i],
                                               captured_at, now, payloads[i])]
                   IN /\ Len(odds_snapshots) + Len(Flatten(out)) <= MaxRows
                      /\ ev_out' = out
                      /\ odds_snapshots' = _store_rows(odds_snapshots, Flatten(out))
                      /\ pc' = "done"
                      /\ UNCHANGED <<exc, base_events, captured_at>>
  /\ UNCHANGED <<now, fixtures, last_rec, exported, mk_in, mk_rows>>

\* con.close() and the prints, or the traceback: the process ends
Finish ==
  /\ pc \in {"done", "crashed"}
  /\ pc' = "start"
  /\ base_events' = <<>>
  /\ captured_at' = None
  /\ ev_out' = <<>>
  /\ UNCHANGED <<now, fixtures, odds_snapshots, exc, last_rec, exported, mk_in, mk_rows>>

(***************************************************************************)
(* export_odds_json (export.py).                                           *)
(***************************************************************************)
ALLOWED_MARKETS == {TOTALS, <<"a","l","t","e","r","n","a","t","e","_","t","o","t","a","l","s">>,
                    SPREADS, BTTS}
ExportLimitDefault == 5000

\* The characters of the model's texts in byte order
Ascii == <<"\t", "\n", " ", "+", "-", ".",
           "0","1","2","3","4","5","6","7","8","9", "?",
           "A","B","C","D","E","F","G","H","I","J","K","L","M",
           "N","O","P","Q","R","S","T","U","V","W","X","Y","Z", "_",
           "a","b","c","d","e","f","g","h","i","j","k","l","m",
           "n","o","p","q","r","s","t","u","v","w","x","y","z">>
CharCode(c) == CHOOSE i \in 1..Len(Ascii) : Ascii[i] = c

\* a < b for two texts (BINARY collation)
RECURSIVE StrLess(_, _)
StrLess(a, b) ==
  IF b = <<>> THEN FALSE
  ELSE IF a = <<>> THEN TRUE
  ELSE IF Head(a) # Head(b) THEN CharCode(Head(a)) < CharCode(Head(b))
  ELSE StrLess(Tail(a), Tail(b))

\* a < b for two REAL values, NULL first
RealLess(a, b) ==
  IF IsNone(b) THEN FALSE ELSE IF IsNone(a) THEN TRUE ELSE a.v < b.v

FixtureOf(ftbl, id) == ftbl[CHOOSE i \in 1..Len(ftbl) : ftbl[i].fixture_id = id]

\* FROM odds_snapshots o JOIN fixtures f ... WHERE o.market IN (...): rowids
Joined(ftbl, stbl) ==
  { i \in 1..Len(stbl) :
      /\ stbl[i].market \in ALLOWED_MARKETS
      /\ \E k \in 1..Len(ftbl) : ftbl[k].fixture_id = stbl[i].fixture_id }

\* PARTITION BY o.fixture_id, o.bookmaker, o.market, o.line
SamePartition(r1, r2) ==
  /\ r1.fixture_id = r2.fixture_id
  /\ r1.bookmaker = r2.bookmaker
  /\ r1.market = r2.market
  /\ r1.line = r2.line

PartitionOf(stbl, J, i) == { j \in J : SamePartition(stbl[i], stbl[j]) }

\* ORDER BY captured_at_utc ASC inside the partition (a faulty variant of RankedBefore)
RankedBefore_asc(r1, r2) == TsLess(r1.captured_at_utc, r2.captured_at_utc)

\* ORDER BY o.captured_at_utc DESC: r1 must be numbered before r2
RankedBefore(r1, r2) == TsLess(r2.captured_at_utc, r1.captured_at_utc)

\* RANK() instead of ROW_NUMBER(): rows of equal captured_at_utc share a
\* number (a faulty variant of IsRowNumber)
IsRowNumber_rank(stbl, J, rn) ==
  \A i \in J :
    rn[i] = 1 + Cardinality({ j \in PartitionOf(stbl, J, i) : RankedBefore(stbl[j], stbl[i]) })

\* rn is a numbering ROW_NUMBER() OVER (PARTITION BY ... ORDER BY ...) can
\* give: 1..n inside each partition, in the order of the ORDER BY; rows the
\* ORDER BY does not tell apart are numbered in any order.
IsRowNumber(stbl, J, rn) ==
  \A i \in J :
    /\ rn[i] \in 1..Cardinality(PartitionOf(stbl, J, i))
    /\ \A j \in PartitionOf(stbl, J, i) :
         /\ (j # i => rn[j] # rn[i])
         /\ (RankedBefore(stbl[i], stbl[j]) => rn[i] < rn[j])

\* ORDER BY commence_time_utc, fixture_id, bookmaker, market, line (all ASC)
OrderKeyLess(ftbl, r1, r2) ==
  LET c1 == FixtureOf(ftbl, r1.fixture_id).commence_time_utc
      c2 == FixtureOf(ftbl, r2.fixture_id).commence_time_utc
  IN \/ TsLess(c1, c2)
     \/ c1 = c2 /\ StrLess(r1.fixture_id, r2.fixture_id)
     \/ c1 = c2 /\ r1.fixture_id = r2.fixture_id /\ StrLess(r1.bookmaker, r2.bookmaker)
     \/ c1 = c2 /\ r1.fixture_id = r2.fixture_id /\ r1.bookmaker = r2.bookmaker
        /\ StrLess(r1.market, r2.market)
     \/ c1 = c2 /\ r1.fixture_id = r2.fixture_id /\ r1.bookmaker = r2.bookmaker
        /\ r1.market = r2.market /\ RealLess(r1.line, r2.line)

\* The rowids of S in the order of the ORDER BY (equal keys by rowid)
RECURSIVE Ordered(_, _, _)
Ordered(ftbl, stbl, S) ==
  IF S = {} THEN <<>>
  ELSE LET m == CHOOSE i \in S :
                  \A j \in S \ {i} :
                    \/ OrderKeyLess(ftbl, stbl[i], stbl[j])
                    \/ ~OrderKeyLess(ftbl, stbl[j], stbl[i]) /\ i < j
       IN <<m>> \o Ordered(ftbl, stbl, S \ {m})

\* One entry of payload["items"]; a btts row is exported with line null
Item(ftbl, r) ==
  LET f == FixtureOf(ftbl, r.fixture_id) IN
    [captured_at_utc |-> r.captured_at_utc, fixture_id |-> r.fixture_id,
     commence_time_utc |-> f.commence_time_utc, matchweek |-> f.matchweek,
     status |-> f.status, home_team |-> f.home_team, away_team |-> f.away_team,
     home_goals |-> f.home_goals, away_goals |-> f.away_goals,
     bookmaker |-> r.bookmaker, market |-> r.market,
     line |-> IF r.market = BTTS THEN None ELSE r.line,
     over_price |-> r.over_price, under_price |-> r.under_price]

\* The rows of the ranked query under the numbering rn and LIMIT limit
LatestRows(ftbl, stbl, rn, limit) ==
  LET top == Ordered(ftbl, stbl, { i \in Joined(ftbl, stbl) : rn[i] = 1 })
  IN [k \in 1..(IF limit < Len(top) THEN limit ELSE Len(top)) |-> stbl[top[k]]]

\* export_odds_json(db_path, out_path, limit), up to the write of the file
Export ==
  /\ pc = "start"
  /\ \E limit \in {1, ExportLimitDefault} :
       \E rn \in [Joined(fixtures, odds_snapshots) -> 1..MaxRows + 1] :
         /\ IsRowNumber(odds_snapshots, Joined(fixtures, odds_snapshots), rn)
         /\ LET rows == LatestRows(fixtures, odds_snapshots, rn, limit) IN
              exported' = [ran |-> TRUE, limit |-> limit,
                           items |-> [k \in 1..Len(rows) |-> Item(fixtures, rows[k])]]
  /\ pc' = "exported"
  /\ UNCHANGED <<now, fixtures, odds_snapshots, exc, captured_at, base_events,
                 ev_out, last_rec, mk_in, mk_rows>>

\* The file is written and the export process ends
ExportDone ==
  /\ pc = "exported"
  /\ pc' = "start"
  /\ exported' = [ran |-> FALSE, limit |-> 0, items |-> <<>>]
  /\ UNCHANGED <<now, fixtures, odds_snapshots, exc, captured_at, base_events,
                 ev_out, last_rec, mk_in, mk_rows>>

(***************************************************************************)
(* The collector and the exporter, run one after the other.                *)
(***************************************************************************)
NoMarket == [key |-> None, outcomes |-> <<>>, home |-> None, away |-> None]
NoRows == [done |-> FALSE, rows |-> <<>>]

InitMain ==
  /\ now = [day |-> 1, sec |-> 0, usec |-> 0]
  /\ fixtures = <<>>
  /\ odds_snapshots = <<>>
  /\ pc = "start"
  /\ exc = ""
  /\ captured_at = None
  /\ base_events = <<>>
  /\ ev_out = <<>>
  /\ last_rec = <<>>
  /\ exported = [ran |-> FALSE, limit |-> 0, items |-> <<>>]

Init ==
  /\ InitMain
  /\ mk_in = NoMarket
  /\ mk_rows = NoRows

\* The feeds of Spec: both providers list the same two matches, one of
\* them (with or without base quotes), or nothing; the per-event endpoint fails, quotes both sides, or one.
UpsertFixtures == UpsertFixturesFrom({ <<>>, <<F100, F101>>, <<F100_finished>> })
FetchOddsBase == FetchOddsBaseFrom({ <<>>, <<E100>>, <<E100, E101>>, <<E100_unquoted>> })
StoreBtts == StoreBttsFrom({ None, BttsQuote, BttsOneSided })

Next ==
  \/ Tick
  \/ UpsertFixtures
  \/ FetchOddsBase
  \/ StoreBase
  \/ StoreBtts
  \/ Finish
  \/ Export
  \/ ExportDone

Spec == Init /\ [][Next]_vars

(***************************************************************************)
(* SpecFixtures: the fixture provider serves any short list of its records *)
(* (the same match twice, under a text id, without names, without          *)
(* utcDate); the odds provider is out of usage credits.                    *)
(***************************************************************************)
FixtureFeed == { F100, F100_finished, F100_moved, F101, F102, F103 }

UpsertFixturesAny == UpsertFixturesFrom(SeqsUpTo(FixtureFeed, MaxMatches))
FetchOddsBaseNone == FetchOddsBaseFrom({ <<>> })
StoreBttsFails == StoreBttsFrom({ None })

NextFixtures ==
  \/ Tick
  \/ UpsertFixturesAny
  \/ FetchOddsBaseNone
  \/ StoreBase
  \/ StoreBttsFails
  \/ Finish
  \/ Export
  \/ ExportDone

SpecFixtures == Init /\ [][NextFixtures]_vars

(***************************************************************************)
(* SpecMatch: the fixture provider lists the two matches, or the first one *)
(* moved by half an hour; the odds provider serves any short list of       *)
(* events, usable or not; its per-event endpoint fails.                    *)
(***************************************************************************)
EventFeed == { E100_provider, E100, E_no_time, E_bad_time, E_no_name, E_naive }

UpsertFixturesTwo == UpsertFixturesFrom({ <<F100, F101>>, <<F100_moved>> })
FetchOddsBaseAny == FetchOddsBaseFrom(SeqsUpTo(EventFeed, MaxEvents))

NextMatch ==
  \/ Tick
  \/ UpsertFixturesTwo
  \/ FetchOddsBaseAny
  \/ StoreBase
  \/ StoreBttsFails
  \/ Finish
  \/ Export
  \/ ExportDone

SpecMatch == Init /\ [][NextMatch]_vars

(***************************************************************************)
(* SpecExtract: the market extractor on any short list of outcomes.        *)
(***************************************************************************)
TotalsOutcomes ==
  { Outcome(n, pr, pt) :
      n \in { Str(OverName), Str(<<" ","U","N","D","E","R"," ">>), Str(<<"D","r","a","w">>) },
      pr \in { Float(190), Str(<<"1",".","8","5">>) },
      pt \in { Float(250), Str(<<"2",".","5">>), Int_(3), Missing } }

SpreadsOutcomes ==
  { Outcome(n, pr, pt) :
      n \in { Str(ArsenalFC), Str(lower(ChelseaFC)), Str(<<"D","r","a","w">>) },
      pr \in { Float(190), Float(195) },
      pt \in { Float(-50), Float(50), Float(0) } }

\* The outcomes of a btts market: a price that is a number, Infinity, the
\* text of nan, a text that is no number, or missing
BttsOutcomes ==
  { Outcome(n, pr, Missing) :
      n \in { Str(YesName), Str(<<" ","n","o">>) },
      pr \in { Float(180), Inf, Str(<<"N","a","N">>), Str(ABC), Missing } }

HarnessCapturedAt == TS(1, 0, "Z")
HarnessFixtureId == <<"1","0","0">>

InitExtract ==
  /\ InitMain
  /\ mk_in \in { [key |-> Str(k), outcomes |-> <<>>,
                  home |-> Str(ArsenalFC), away |-> Str(ChelseaFC)] : k \in {TOTALS, SPREADS, BTTS} }
  /\ mk_rows = NoRows

\* The provider lists one more outcome in the market
AddOutcome ==
  /\ ~mk_rows.done
  /\ Len(mk_in.outcomes) < MaxOutcomes
  /\ \E o \in (IF mk_in.key = Str(TOTALS) THEN TotalsOutcomes
               ELSE IF mk_in.key = Str(SPREADS) THEN SpreadsOutcomes
               ELSE BttsOutcomes) :
       mk_in' = [mk_in EXCEPT !.outcomes = Append(@, o)]
  /\ UNCHANGED <<now, fixtures, odds_snapshots, pc, exc, captured_at, base_events,
                 ev_out, last_rec, exported, mk_rows>>

\* The rows of the market `key` with outcomes outs: a base market of the
\* event home v away, or a btts market of its btts payload
ExtractedRows(key, outs, home, away) ==
  IF key = Str(BTTS)
    THEN BttsMarketRows(Market(key, outs), HarnessCapturedAt, HarnessFixtureId, Bet1)
    ELSE MarketRows(Market(key, outs), HarnessCapturedAt, HarnessFixtureId, Bet1, home, away)

\* The body of `for mk in bm.get("markets")` on the market mk_in
ExtractMarket ==
  /\ ~mk_rows.done
  /\ mk_rows' = [done |-> TRUE,
                 rows |-> ExtractedRows(mk_in.key, mk_in.outcomes, mk_in.home, mk_in.away)]
  /\ UNCHANGED <<now, fixtures, odds_snapshots, pc, exc, captured_at, base_events,
                 ev_out, last_rec, exported, mk_in>>

NextExtract ==
  \/ AddOutcome
  \/ ExtractMarket

SpecExtract == InitExtract /\ [][NextExtract]_vars

(***************************************************************************)
(* The snapshot store (Spec).                                              *)
(***************************************************************************)
SameWriteKey(r1, r2) ==
  /\ r1.captured_at_utc = r2.captured_at_utc
  /\ r1.fixture_id = r2.fixture_id
  /\ r1.bookmaker = r2.bookmaker
  /\ r1.market = r2.market
  /\ r1.line = r2.line

SameItemKey(x, y) ==
  /\ x.fixture_id = y.fixture_id
  /\ x.bookmaker = y.bookmaker
  /\ x.market = y.market
  /\ x.line = y.line

\* C1: the snapshot store never holds two rows with the same
\* (captured_at_utc, fixture_id, bookmaker, market, line).
C1_OneRowPerWriteKey ==
  \A i, j \in 1..Len(odds_snapshots) :
    SameWriteKey(odds_snapshots[i], odds_snapshots[j]) => i = j

\* C2: the items of an export never hold two entries with the same
\* (fixture_id, bookmaker, market, line).
C2_LatestKeysDistinct ==
  exported.ran =>
    \A i, j \in 1..Len(exported.items) :
      SameItemKey(exported.items[i], exported.items[j]) => i = j

\* An export ran over a store that holds two rows of one key, captured at
\* the same second, and returned that key.
C2_Witness ==
  /\ exported.ran
  /\ \E i, j \in 1..Len(odds_snapshots) :
       /\ i # j
       /\ SamePartition(odds_snapshots[i], odds_snapshots[j])
       /\ odds_snapshots[i].captured_at_utc = odds_snapshots[j].captured_at_utc
       /\ \E k \in 1..Len(exported.items) :
            /\ exported.items[k].fixture_id = odds_snapshots[i].fixture_id
            /\ exported.items[k].market = odds_snapshots[i].market

\* The stored row r is what the item x shows
ItemShowsRow(x, r) ==
  /\ x.captured_at_utc = r.captured_at_utc
  /\ x.fixture_id = r.fixture_id
  /\ x.bookmaker = r.bookmaker
  /\ x.market = r.market
  /\ x.line = (IF r.market = BTTS THEN None ELSE r.line)
  /\ x.over_price = r.over_price
  /\ x.under_price = r.under_price

\* The stored row r has the key of the item x
RowHasItemKey(x, r) ==
  /\ x.fixture_id = r.fixture_id
  /\ x.bookmaker = r.bookmaker
  /\ x.market = r.market
  /\ x.line = (IF r.market = BTTS THEN None ELSE r.line)

\* C3: every item of an export shows a stored row, and no stored row of
\* the item's key has a later captured_at_utc.
C3_LatestIsNewest ==
  exported.ran =>
    \A k \in 1..Len(exported.items) :
      /\ \E i \in 1..Len(odds_snapshots) : ItemShowsRow(exported.items[k], odds_snapshots[i])
      /\ \A j \in 1..Len(odds_snapshots) :
           RowHasItemKey(exported.items[k], odds_snapshots[j]) =>
             ~TsLess(exported.items[k].captured_at_utc, odds_snapshots[j].captured_at_utc)

\* An export returned a key of which the store also holds an older row.
C3_Witness ==
  /\ exported.ran
  /\ \E k \in 1..Len(exported.items) :
       \E j \in 1..Len(odds_snapshots) :
         /\ RowHasItemKey(exported.items[k], odds_snapshots[j])
         /\ TsLess(odds_snapshots[j].captured_at_utc, exported.items[k].captured_at_utc)

(***************************************************************************)
(* The fixture store (SpecFixtures).                                       *)
(***************************************************************************)
\* C4: the fixture store holds exactly one row per ingested fixture_id, and
\* that row is the last record upsert_fixtures committed for the id.
C4_UpsertLastWriterWins ==
  /\ \A i, j \in 1..Len(fixtures) :
       fixtures[i].fixture_id = fixtures[j].fixture_id => i = j
  /\ \A i \in 1..Len(fixtures) :
       /\ fixtures[i].fixture_id \in DOMAIN last_rec
       /\ fixtures[i] = last_rec[fixtures[i].fixture_id]
  /\ \A id \in DOMAIN last_rec : \E i \in 1..Len(fixtures) : fixtures[i].fixture_id = id

\* Fixture 100 was inserted before another fixture and updated after it, to
\* the played match.
C4_Witness ==
  /\ Len(fixtures) >= 2
  /\ fixtures[1].fixture_id = <<"1","0","0">>
  /\ fixtures[1].status = Str(FINISHED)
  /\ fixtures[1].home_goals = Int_(2)
  /\ TsLess(fixtures[2].last_updated_utc, fixtures[1].last_updated_utc)

(***************************************************************************)
(* The matcher as the specification describes it, to state C5..C7.         *)
(***************************************************************************)
WindowSeconds == 10 * 60
ClubSuffixes == { <<"f","c">>, <<"a","f","c">>, <<"c","f">>, <<"s","c">> }

\* The words of a text
RECURSIVE Words(_, _)
Words(s, cur) ==
  IF s = <<>> THEN (IF cur = <<>> THEN <<>> ELSE <<cur>>)
  ELSE IF Head(s) \in Whitespace
         THEN (IF cur = <<>> THEN <<>> ELSE <<cur>>) \o Words(Tail(s), <<>>)
         ELSE Words(Tail(s), Append(cur, Head(s)))

\* normalize(name): trimmed, lower case, club suffixes dropped, as its words
normalize(x) ==
  IF ~Truthy(x) THEN <<>>
  ELSE SelectSeq(Words(lower(x.s), <<>>), LAMBDA w : w \notin ClubSuffixes)

IsTimestamp(x) == x.t = "ts"
InstantOf(ts) == ts.day * 86400 + ts.sod
Abs(n) == IF n < 0 THEN -n ELSE n

\* Both texts are timestamps, at most the window apart
InWindow(a, b) ==
  /\ IsTimestamp(a)
  /\ IsTimestamp(b)
  /\ Abs(InstantOf(a) - InstantOf(b)) <= WindowSeconds

\* The fixture f is the match the event ev is about
SameMatch(f, ev) ==
  /\ Truthy(Get(ev.home_team))
  /\ Truthy(Get(ev.away_team))
  /\ normalize(Get(ev.home_team)) = normalize(f.home_team)
  /\ normalize(Get(ev.away_team)) = normalize(f.away_team)
  /\ InWindow(f.commence_time_utc, Get(ev.commence_time))

TotalsRowsOf(rows) == SelectSeq(rows, LAMBDA r : r.market = TOTALS)

\* The event's totals quote, as the one row it should be stored as
QuotedRow(ev, cap, fixture_id) ==
  LET bm == ev.bookmakers[1]
      q == bm.markets[1].outcomes
  IN SnapRow(cap, fixture_id, BmTitle(bm).s, TOTALS, float(q[1].point),
             float(q[1].price), float(q[2].price))

\* C5: after store_base_market_snapshots, an event whose names equal a
\* fixture's after normalization and whose kick-off lies within ten minutes
\* of the fixture's has stored its totals quote as exactly one row of that
\* fixture.
C5_NormalizedEventStored ==
  pc = "btts" =>
    \A i \in 1..Len(base_events) :
      \A k \in 1..Len(fixtures) :
        SameMatch(fixtures[k], base_events[i]) =>
          TotalsRowsOf(ev_out[i]) =
            <<QuotedRow(base_events[i], captured_at, fixtures[k].fixture_id)>>

\* C6: the matcher never returns a fixture whose kick-off is outside the
\* window around the event's, and no row of an event belongs to such a
\* fixture.
C6_WindowIsHardFilter ==
  pc = "btts" =>
    \A i \in 1..Len(base_events) :
      LET ev == base_events[i]
          got == _fixture_id_for_event(fixtures, Get(ev.commence_time),
                                       Get(ev.home_team), Get(ev.away_team))
      IN /\ Truthy(got) =>
              InWindow(FixtureOf(fixtures, got.s).commence_time_utc, Get(ev.commence_time))
         /\ \A n \in 1..Len(ev_out[i]) :
              InWindow(FixtureOf(fixtures, ev_out[i][n].fixture_id).commence_time_utc,
                       Get(ev.commence_time))

\* A batch was stored with an event whose names are those of a fixture
\* kicking off half an hour later: the event got no row.
C6_Witness ==
  /\ pc = "btts"
  /\ \E i \in 1..Len(base_events) :
       \E k \in 1..Len(fixtures) :
         /\ FixtureMatches_names_only(fixtures[k], Get(base_events[i].commence_time),
                                      Get(base_events[i].home_team),
                                      Get(base_events[i].away_team))
         /\ IsTimestamp(Get(base_events[i].commence_time))
         /\ ~InWindow(fixtures[k].commence_time_utc, Get(base_events[i].commence_time))
         /\ ev_out[i] = <<>>

\* The events C7 is about
NoCommence(ev) == ~Truthy(Get(ev.commence_time))
UnparsableCommence(ev) ==
  Truthy(Get(ev.commence_time)) /\ ~IsTimestamp(Get(ev.commence_time))
NoTeamName(ev) == ~Truthy(Get(ev.home_team)) \/ ~Truthy(Get(ev.away_team))
NoCandidate(ftbl, ev) == \A k \in 1..Len(ftbl) : ~SameMatch(ftbl[k], ev)
Unusable(ftbl, ev) ==
  NoCommence(ev) \/ UnparsableCommence(ev) \/ NoTeamName(ev) \/ NoCandidate(ftbl, ev)

StoredTail(tbl, n) ==
  [k \in 1..n |->
     LET r == tbl[Len(tbl) - n + k] IN
       SnapRow(r.captured_at_utc, r.fixture_id, r.bookmaker, r.market, r.line,
               r.over_price, r.under_price)]

\* C7: store_base_market_snapshots writes no row for an event without a
\* usable kick-off, team name or candidate fixture, gives every other event
\* of the batch the rows it gets alone, and stores exactly those; neither it
\* nor store_btts_snapshots raises because of such an event.
C7_UnusableEventSkipped ==
  /\ pc = "btts" =>
       /\ exc = ""
       /\ Len(ev_out) = Len(base_events)
       /\ \A i \in 1..Len(base_events) :
            /\ Unusable(fixtures, base_events[i]) => ev_out[i] = <<>>
            /\ ev_out[i] = Flatten(BaseLoop(fixtures, <<base_events[i]>>, captured_at))
       /\ Len(odds_snapshots) >= Len(Flatten(ev_out))
       /\ StoredTail(odds_snapshots, Len(Flatten(ev_out))) = Flatten(ev_out)
  /\ pc = "crashed" /\ exc = "TypeError" =>
       \E i \in 1..Len(base_events) :
         /\ IsTimestamp(Get(base_events[i].commence_time))
         /\ ~IsAware(Get(base_events[i].commence_time))

\* A batch was stored whose first event has a text for a kick-off that is no
\* timestamp and whose second event got its row.
C7_Witness ==
  /\ pc = "btts"
  /\ Len(base_events) = 2
  /\ UnparsableCommence(base_events[1])
  /\ ev_out[1] = <<>>
  /\ ev_out[2] # <<>>
  /\ odds_snapshots # <<>>

(***************************************************************************)
(* The market extractor (SpecExtract).                                     *)
(***************************************************************************)
\* An outcome with a usable price and point
Quoted(o) ==
  /\ ~IsNone(Get(o.point))
  /\ ~IsNone(Get(o.price))
  /\ ~FloatFails(Get(o.point))
  /\ ~FloatFails(Get(o.price))

\* The positions of the quoted outcomes named `side` at the line ln
SideAt(outs, side, ln) ==
  { i \in 1..Len(outs) :
      /\ Quoted(outs[i])
      /\ _norm(Get(outs[i].name)) = side
      /\ float(Get(outs[i].point)) = ln }

LinesOf(outs) == { float(Get(outs[i].point)) : i \in { j \in 1..Len(outs) : Quoted(outs[j]) } }

BothSides(outs) ==
  { ln \in LinesOf(outs) : SideAt(outs, OVER, ln) # {} /\ SideAt(outs, UNDER, ln) # {} }

Last(S) == CHOOSE i \in S : \A j \in S : j <= i

\* C8: the rows extracted from a totals market are one per line quoted on
\* both sides, with the over price as side A and the under price as side B;
\* a line quoted on one side only has no row.
C8_TotalsOneRowPerTwoSidedLine ==
  (mk_rows.done /\ mk_in.key = Str(TOTALS)) =>
    LET outs == mk_in.outcomes
        rows == mk_rows.rows
    IN /\ { rows[n].line : n \in 1..Len(rows) } = BothSides(outs)
       /\ Len(rows) = Cardinality(BothSides(outs))
       /\ \A n \in 1..Len(rows) :
            /\ rows[n].market = TOTALS
            /\ rows[n].over_price =
                 float(Get(outs[Last(SideAt(outs, OVER, rows[n].line))].price))
            /\ rows[n].under_price =
                 float(Get(outs[Last(SideAt(outs, UNDER, rows[n].line))].price))

\* A totals market with a line quoted on both sides, under a name in other
\* case, and a line quoted on one side only: one row.
C8_Witness ==
  /\ mk_rows.done
  /\ mk_in.key = Str(TOTALS)
  /\ Len(mk_rows.rows) = 1
  /\ Cardinality(LinesOf(mk_in.outcomes)) = 2
  /\ mk_rows.rows[1].line = Float(250)

Negated(x) == Float(0 - x.v)

\* C9: the rows extracted from a spreads market that lists the home team at
\* point p and the away team at point -p are one row, with line p, the home
\* price as side A and the away price as side B.
C9_SpreadsHomeLine ==
  (mk_rows.done /\ mk_in.key = Str(SPREADS) /\ Len(mk_in.outcomes) = 2) =>
    LET h == mk_in.outcomes[1]
        a == mk_in.outcomes[2]
    IN (/\ _norm(h.name) = _norm(mk_in.home)
        /\ _norm(a.name) = _norm(mk_in.away)
        /\ a.point = Negated(h.point)) =>
          mk_rows.rows = <<SnapRow(HarnessCapturedAt, HarnessFixtureId, Bet1, SPREADS,
                                   h.point, h.price, a.price)>>

(***************************************************************************)
(* The btts rows (Spec).                                                   *)
(***************************************************************************)
BttsRowsOf(tbl) == { i \in 1..Len(tbl) : tbl[i].market = BTTS }

IsFiniteNumber(x) ==
  /\ x.t \notin {"none", "missing"}
  /\ ~FloatFails(x)
  /\ float(x).t = "float"

\* An outcome of a market `key` whose price, or whose point where the market
\* has lines, is no finite number
NotFinite(key, o) ==
  \/ ~IsFiniteNumber(Get(o.price))
  \/ key # Str(BTTS) /\ ~IsFiniteNumber(Get(o.point))

Without(outs, i) == SubSeq(outs, 1, i - 1) \o SubSeq(outs, i + 1, Len(outs))

\* C11: the rows extracted from a market are the rows extracted from it
\* without any one outcome whose price or point is no finite number.
C11_NonFiniteOutcomeSkipped ==
  mk_rows.done =>
    \A i \in 1..Len(mk_in.outcomes) :
      NotFinite(mk_in.key, mk_in.outcomes[i]) =>
        mk_rows.rows = ExtractedRows(mk_in.key, Without(mk_in.outcomes, i),
                                     mk_in.home, mk_in.away)

(***************************************************************************)
(* The snapshot store over the steps of a run (Spec).                      *)
(***************************************************************************)
\* C12: every step of upsert_fixtures, store_base_market_snapshots,
\* store_btts_snapshots and the export leaves each stored snapshot row in
\* place with all its fields; rows are only added.
C12_AppendOnly ==
  [][/\ Len(odds_snapshots') >= Len(odds_snapshots)
     /\ \A i \in 1..Len(odds_snapshots) : odds_snapshots'[i] = odds_snapshots[i]]_vars

\* A quote stored by one run was stored again, later, by another run, and the
\* store was exported: both rows are there.
C12_Witness ==
  /\ exported.ran
  /\ \E i, j \in 1..Len(odds_snapshots) :
       /\ i < j
       /\ SamePartition(odds_snapshots[i], odds_snapshots[j])
       /\ TsLess(odds_snapshots[i].captured_at_utc, odds_snapshots[j].captured_at_utc)

(***************************************************************************)
(* The btts captures of a day (Spec).                                      *)
(***************************************************************************)
\* C13: the btts rows of one fixture whose captured_at_utc is of one UTC
\* date share one captured_at_utc.
C13_BttsOncePerDay ==
  \A i, j \in BttsRowsOf(odds_snapshots) :
    (/\ odds_snapshots[i].fixture_id = odds_snapshots[j].fixture_id
     /\ odds_snapshots[i].captured_at_utc.day = odds_snapshots[j].captured_at_utc.day)
      => odds_snapshots[i].captured_at_utc = odds_snapshots[j].captured_at_utc

=============================================================================
